---- MODULE Spec2Model ----
(***************************************************************************)
(* Verification model of the news aggregation pipeline:                    *)
(*   CacheManager   (utils/CacheManager.ts, src/unnamed/part_004)          *)
(*   NewsAggregator (NewsAggregator.ts,     src/unnamed/part_006)          *)
(*   NewsSource     (src/src/sources/NewsSource.ts)                        *)
(*                                                                         *)
(* Idealisations, stated once:                                             *)
(*  - MD5 is modelled as an injective function (no collisions): the hash   *)
(*    of an item's content string is a number that identifies the content  *)
(*    string, and the hash of the joined sorted per-item hashes is the     *)
(*    sorted sequence itself.                                              *)
(*  - Date.now() is a logical clock `now`.                                 *)
(*  - JavaScript runs handlers to completion: code between two awaits is   *)
(*    one action.                                                          *)
(***************************************************************************)
EXTENDS Integers, Sequences, FiniteSets, TLC

VARIABLES
    cache,          \* CacheManager.cache (CacheData) of the running process
    disk,           \* contents of cache/news-cache.json
    now,            \* Date.now()
    runs,           \* number of processes started so far (main)
    run,            \* state of aggregateNews' promise in the current process
    enabled,        \* enabledCategories after the filter, in order
    promises,       \* scrapeCategory: promises[c][i], one per active source
    pass,           \* per category: position of the map(async category) task
    emitted,        \* per category: the list scrapeCategory returned
    saves,          \* per category: saveCache calls made by its pass
    feeds,          \* per-source feed files written by generateSourceFeed
    cmTrace,        \* CacheManager driven directly: the calls made so far
    hashOrig,       \* generateItemsHash: the item list first hashed
    hashPerm,       \* generateItemsHash: the current permutation of it
    hashOut,        \* generateItemsHash: the two aggregate hashes computed
    lastRequestTime,\* NewsSource.lastRequestTime of one adapter instance
    clock,          \* Date.now() seen by that adapter, in ms
    callers,        \* per enforceRateLimit call: position, locals, return instant
    saveFailed,     \* a writeFileSync of saveCache threw in the current process
    changeCheck,    \* the last checkForChanges call: clock, cache, return value
    consolidation,  \* consolidateResults: its argument and the list it returned
    registry,       \* contents of docs/feeds-registry.json
    registered,     \* the registerFeed calls made so far, each with the file before
    configLoader,   \* ConfigLoader: the config file, this.config, the calls made
    browserPool     \* BrowserPool: browser, contexts, launches, getContext calls

vars == <<cache, disk, now, runs, run, enabled, promises, pass, emitted,
          saves, feeds, cmTrace, hashOrig, hashPerm, hashOut,
          lastRequestTime, clock, callers, saveFailed, changeCheck,
          consolidation, registry, registered, configLoader, browserPool>>

aggVars  == <<cache, disk, now, runs, run, enabled, promises, pass, emitted,
              saves, feeds, saveFailed>>
hashVars == <<hashOrig, hashPerm, hashOut>>
rateVars == <<lastRequestTime, clock, callers>>
regVars  == <<registry, registered>>
utilVars == <<configLoader, browserPool>>
\* the variables of checkForChanges, consolidateResults and the feed registry
moreVars == <<changeCheck, consolidation, regVars, utilVars>>

-----------------------------------------------------------------------------
(* Bounds *)

MaxRuns == 2        \* processes (runs of main) explored
MaxOps == 3         \* direct CacheManager calls explored
MaxLen == 3         \* longest item list hashed
MaxTicks == 4       \* clock advances explored by the rate limiter
MaxCallers == 3     \* enforceRateLimit calls explored
MaxHalfMinutes == 11 \* clock advances explored by checkForChanges
MaxInput == 6       \* results plus items handed to consolidateResults
MaxRegistrations == 3 \* registerFeed calls explored
maxItemsPerFeed == 3 \* global.maxItemsPerFeed (50 in config/sources.json), scaled down

-----------------------------------------------------------------------------
(* Configuration: two enabled sources, two enabled categories.             *)

SourceOrder == <<"setn", "hk01">>
Sources == {SourceOrder[i] : i \in 1..Len(SourceOrder)}
EnabledCategories == <<"entertainment", "crypto">>

getName(sourceId) == IF sourceId = "setn" THEN "SETN Entertainment"
                     ELSE "HK01 Entertainment"

getSupportedCategories(sourceId) ==
    IF sourceId = "setn" THEN <<"entertainment", "crypto">>
    ELSE <<"entertainment">>

Range(s) == {s[i] : i \in 1..Len(s)}

includes(s, x) == x \in Range(s)

-----------------------------------------------------------------------------
(* Items.  A Date is its time value in ms; an Invalid Date has time NaN.   *)

InvalidDate == -1
Undefined == "<undefined>"

Titles == <<"t1", "t2", "t3">>
Descriptions == <<"", "d">>
Urls == <<"u1", "u2", "u3">>
Instants == <<1, 2>>

IndexOf(seq, x) == IF \E i \in 1..Len(seq) : seq[i] = x
                   THEN CHOOSE i \in 1..Len(seq) : seq[i] = x
                   ELSE 0

\* Buffer.from(`${title}-${source}`).toString('base64').slice(0, 16), kept
\* as the text that is encoded
generateId(title, source) == <<title, "-", source>>

\* config.name.toLowerCase()
lowerCaseName(sourceId) == IF sourceId = "setn" THEN "setn entertainment"
                           ELSE "hk01 entertainment"

\* t is the value of new Date() for scrapedAt; every adapter passes a date
\* and a rank, the description and the image URL may be undefined
createNewsItem(sourceId, title, url, category, publishedAt, description, imageUrl, rank, t) ==
    [ id          |-> generateId(title, getName(sourceId)),
      title       |-> title,
      description |-> description,
      source      |-> getName(sourceId),
      sourceUrl   |-> url,
      category    |-> category,
      tags        |-> <<category, lowerCaseName(sourceId)>>,
      publishedAt |-> publishedAt,
      scrapedAt   |-> t,
      rank        |-> rank,
      imageUrl    |-> imageUrl ]

\* what an adapter may scrape for one article
ItemA(s, c)   == createNewsItem(s, "t1", "u1", c, 1, Undefined, Undefined, 1, 2)
ItemA2(s, c)  == createNewsItem(s, "t1", "u1", c, 1, "", Undefined, 2, 2)
ItemB(s, c)   == createNewsItem(s, "t2", "u2", c, 2, "d", "i2", 2, 2)
ItemBad(s, c) == createNewsItem(s, "t3", "u3", c, InvalidDate, "d", Undefined, 1, 2)

ItemLists(s, c) ==
    { <<>>, <<ItemA(s, c), ItemB(s, c)>>, <<ItemB(s, c), ItemA2(s, c)>>,
      <<ItemBad(s, c)>> }

createSuccessResult(sourceId, items, category) ==
    [ items |-> items, success |-> TRUE, source |-> getName(sourceId),
      category |-> category ]

createErrorResult(sourceId, error, category) ==
    [ items |-> <<>>, success |-> FALSE, error |-> error,
      source |-> getName(sourceId), category |-> category ]

-----------------------------------------------------------------------------
(* CacheManager *)

\* Date.prototype.toISOString: RangeError on an Invalid Date
toISOStringThrows(date) == date = InvalidDate
\* the text YYYY-MM-DDTHH:mm:ss.sssZ, kept as its whole seconds and its
\* milliseconds field
toISOString_wholeSeconds(date) == [seconds |-> date \div 1000, sss |-> 0]

toISOString(date) == [seconds |-> date \div 1000, sss |-> date % 1000]
\* new Date(isoString)
parseDate(str) == str.seconds * 1000 + str.sss

\* md5 of `${title}|${description || ''}|${sourceUrl}|${publishedAt.toISOString()}`
generateContentHash(item) ==
    LET d    == IF item.description = Undefined THEN "" ELSE item.description
        code == ((IndexOf(Titles, item.title) * 3
                    + IndexOf(Descriptions, d)) * 4
                    + IndexOf(Urls, item.sourceUrl)) * 3
                    + IndexOf(Instants, item.publishedAt)
    IN  (code * 37) % 211

generateItemsHash_unsorted(items) ==
    [i \in 1..Len(items) |-> items[i].contentHash]

generateItemsHash(items) ==
    SortSeq([i \in 1..Len(items) |-> items[i].contentHash],
            LAMBDA a, b : a < b)

convertToCacheThrows(items) ==
    \E i \in 1..Len(items) : toISOStringThrows(items[i].publishedAt)

convertToCache(items) ==
    [i \in 1..Len(items) |->
        [ id          |-> items[i].id,
          title       |-> items[i].title,
          description |-> items[i].description,
          source      |-> items[i].source,
          sourceUrl   |-> items[i].sourceUrl,
          category    |-> items[i].category,
          tags        |-> items[i].tags,
          publishedAt |-> toISOString(items[i].publishedAt),
          scrapedAt   |-> toISOString(items[i].scrapedAt),
          rank        |-> items[i].rank,
          imageUrl    |-> items[i].imageUrl,
          contentHash |-> generateContentHash(items[i]) ]]

\* obj[f] of a parsed JSON object: undefined when the property is missing
prop(obj, f) == IF f \in DOMAIN obj THEN obj[f] ELSE Undefined

convertFromCache_none(cachedItems) == <<>>

convertFromCache(cachedItems) ==
    [i \in 1..Len(cachedItems) |->
        [ id          |-> cachedItems[i].id,
          title       |-> cachedItems[i].title,
          description |-> prop(cachedItems[i], "description"),
          source      |-> cachedItems[i].source,
          sourceUrl   |-> cachedItems[i].sourceUrl,
          category    |-> cachedItems[i].category,
          tags        |-> cachedItems[i].tags,
          publishedAt |-> parseDate(cachedItems[i].publishedAt),
          scrapedAt   |-> parseDate(cachedItems[i].scrapedAt),
          rank        |-> cachedItems[i].rank,
          imageUrl    |-> prop(cachedItems[i], "imageUrl") ]]

getCacheKey(sourceId, category) == sourceId \o "_" \o category

EmptyCache(t) == [version |-> "1.0.0", lastUpdate |-> t, sources |-> <<>>]

hasEntry(c, sourceId, category) ==
    getCacheKey(sourceId, category) \in DOMAIN c.sources

entryOf(c, sourceId, category) == c.sources[getCacheKey(sourceId, category)]

\* hasChanges lets the RangeError of convertToCache escape (line 113)
hasChangesThrows(c, sourceId, category, newItems) ==
    /\ hasEntry(c, sourceId, category)
    /\ Len(entryOf(c, sourceId, category).items) # 0
    /\ convertToCacheThrows(newItems)

hasChanges_missingIsUnchanged(c, sourceId, category, newItems) ==
    IF ~hasEntry(c, sourceId, category) THEN FALSE
    ELSE IF Len(entryOf(c, sourceId, category).items) = 0 THEN TRUE
    ELSE entryOf(c, sourceId, category).itemsHash
            # generateItemsHash(convertToCache(newItems))

hasChanges_noEmptyCheck(c, sourceId, category, newItems) ==
    IF ~hasEntry(c, sourceId, category) THEN TRUE
    ELSE entryOf(c, sourceId, category).itemsHash
            # generateItemsHash(convertToCache(newItems))

\* only evaluated when ~hasChangesThrows(c, sourceId, category, newItems)
hasChanges(c, sourceId, category, newItems) ==
    IF ~hasEntry(c, sourceId, category) THEN TRUE
    ELSE IF Len(entryOf(c, sourceId, category).items) = 0 THEN TRUE
    ELSE entryOf(c, sourceId, category).itemsHash
            # generateItemsHash(convertToCache(newItems))

updateCacheThrows(items) == convertToCacheThrows(items)

\* only evaluated when ~updateCacheThrows(items)
updateCache(c, sourceId, category, items, t) ==
    LET cachedItems == convertToCache(items)
    IN  [c EXCEPT !.sources =
            (getCacheKey(sourceId, category) :>
                [ sourceId   |-> sourceId,
                  category   |-> category,
                  lastUpdate |-> t,
                  items      |-> cachedItems,
                  itemsHash  |-> generateItemsHash(cachedItems) ]) @@ @]

getCachedItems_none(c, sourceId, category) == <<>>

getCachedItems(c, sourceId, category) ==
    IF ~hasEntry(c, sourceId, category) THEN <<>>
    ELSE convertFromCache(entryOf(c, sourceId, category).items)

\* "missing" when there is no file
NoFile == [missing |-> TRUE]

\* JSON.stringify leaves out the properties of an item whose value is
\* undefined; the description and the image URL are the optional ones
OptionalFields == {"description", "imageUrl"}

stringifyItem(cached) ==
    [ f \in { g \in DOMAIN cached :
                g \in OptionalFields => cached[g] # Undefined } |-> cached[f] ]

\* JSON.stringify(this.cache, null, 2)
stringifyCache(c) ==
    [c EXCEPT !.sources =
        [ k \in DOMAIN c.sources |->
            [c.sources[k] EXCEPT !.items =
                [ i \in 1..Len(c.sources[k].items) |->
                    stringifyItem(c.sources[k].items[i]) ]] ]]

\* a file that readFileSync or JSON.parse rejects holds no document
parseThrows(file) == "doc" \notin DOMAIN file

\* Object.keys(cache.sources) of line 27 throws a TypeError when the parsed
\* document is null or has no sources, or when its sources is null
keysThrows(doc) ==
    \/ "sources" \notin DOMAIN doc
    \/ "null" \in DOMAIN doc.sources

loadCache(file, t) ==
    IF file = NoFile THEN EmptyCache(t)
    ELSE IF parseThrows(file) THEN EmptyCache(t)
    ELSE IF keysThrows(file.doc) THEN EmptyCache(t)
    ELSE file.doc

\* saveCache: lastUpdate is stamped inside the try, before the write
stampCache(c, t) == [c EXCEPT !.lastUpdate = t]

writeFile_withoutSources(c) == [doc |-> [c EXCEPT !.sources = <<>>]]

writeFile(c) == [doc |-> stringifyCache(c)]

-----------------------------------------------------------------------------
(* NewsAggregator.scrapeCategory *)

RECURSIVE SelectSupporting(_, _)
SelectSupporting(ids, category) ==
    IF ids = <<>> THEN <<>>
    ELSE IF includes(getSupportedCategories(Head(ids)), category)
         THEN <<Head(ids)>> \o SelectSupporting(Tail(ids), category)
         ELSE SelectSupporting(Tail(ids), category)

\* the sources whose scrapeCategory was pushed to `promises`, in Map order
activeSourceIds(category) == SelectSupporting(SourceOrder, category)

Pending == [status |-> "pending"]
Fulfilled(value) == [status |-> "fulfilled", value |-> value]
Rejected == [status |-> "rejected"]

\* what source.scrapeCategory(category) may settle to
Outcomes(sourceId, category) ==
    { Fulfilled(createSuccessResult(sourceId, items, category)) :
          items \in ItemLists(sourceId, category) }
    \cup { Fulfilled(createErrorResult(sourceId, "error", category)), Rejected }

cachedResult_failed(cachedItems, source, category) ==
    [ items |-> cachedItems, success |-> FALSE, source |-> source,
      category |-> category ]

cachedResult(cachedItems, source, category) ==
    [ items |-> cachedItems, success |-> TRUE, source |-> source,
      category |-> category ]

\* the callback of scrapingResults.forEach, for one settled promise;
\* st.threw records an exception escaping the callback
forEachCallback(st, result, sourceId, category, t) ==
    IF result.status = "fulfilled" THEN
        IF result.value.success THEN
            IF hasChangesThrows(st.cache, sourceId, category, result.value.items)
            THEN [st EXCEPT !.threw = TRUE]
            ELSE IF hasChanges(st.cache, sourceId, category, result.value.items)
            THEN IF updateCacheThrows(result.value.items)
                 THEN [st EXCEPT !.threw = TRUE]
                 ELSE [st EXCEPT
                         !.cache = updateCache(st.cache, sourceId, category,
                                               result.value.items, t),
                         !.results = Append(@, result.value)]
            ELSE [st EXCEPT !.cacheHits = Append(@,
                     cachedResult(getCachedItems(st.cache, sourceId, category),
                                  result.value.source, category))]
        ELSE
            LET cachedItems == getCachedItems(st.cache, sourceId, category)
            IN  IF Len(cachedItems) > 0
                THEN [st EXCEPT !.cacheHits = Append(@,
                         cachedResult(cachedItems, result.value.source, category))]
                ELSE [st EXCEPT !.results = Append(@, result.value)]
    ELSE
        LET cachedItems == getCachedItems(st.cache, sourceId, category)
        IN  IF Len(cachedItems) > 0
            THEN [st EXCEPT !.cacheHits = Append(@,
                     cachedResult(cachedItems, sourceId, category))]
            ELSE st

RECURSIVE forEach(_, _, _, _, _)
forEach(st, scrapingResults, category, index, t) ==
    IF index > Len(scrapingResults) \/ st.threw THEN st
    ELSE forEach(forEachCallback(st, scrapingResults[index],
                                 activeSourceIds(category)[index], category, t),
                 scrapingResults, category, index + 1, t)

\* lines 222-284 applied to the settled promises of one category
applyDecisions(c, scrapingResults, category, t) ==
    forEach([cache |-> c, results |-> <<>>, cacheHits |-> <<>>, threw |-> FALSE],
            scrapingResults, category, 1, t)

allSettled(ps) == \A i \in 1..Len(ps) : ps[i].status # "pending"

-----------------------------------------------------------------------------
(* NewsAggregator.aggregateNews, one process per run (main.ts) *)

CategorySet == Range(EnabledCategories)

\* --categories=... values of the command line
FilterChoices == { <<>>, <<"entertainment">>, <<"crypto">>, <<"sports">> }

filterEnabled(filterCategories) ==
    IF Len(filterCategories) > 0
    THEN SelectSeq(EnabledCategories, LAMBDA c : includes(filterCategories, c))
    ELSE EnabledCategories

\* sourceId lookup of generateSourceFeed (lines 326-337).  The fallback
\* lower-cases the name and turns white space into '-'; the only names that
\* reach it are source ids, which it leaves as they are.
feedSourceId(sourceName) ==
    IF \E s \in Sources : getName(s) = sourceName
    THEN CHOOSE s \in Sources : getName(s) = sourceName
    ELSE sourceName

\* category.charAt(0).toUpperCase() + category.slice(1)
capitalize(category) ==
    IF category = "entertainment" THEN "Entertainment"
    ELSE IF category = "crypto" THEN "Crypto"
    ELSE category

\* the file written and the descriptor registered by generateSourceFeed
generateSourceFeed(result, category) ==
    [ path      |-> category \o "/" \o feedSourceId(result.source) \o ".xml",
      name      |-> result.source \o " - " \o capitalize(category),
      category  |-> category,
      itemCount |-> Len(result.items),
      sources   |-> <<result.source>> ]

AggInit ==
    /\ cache = EmptyCache(0)
    /\ disk = NoFile
    /\ now = 0
    /\ runs = 0
    /\ run = "none"
    /\ enabled = <<>>
    /\ promises = [c \in CategorySet |-> <<>>]
    /\ pass = [c \in CategorySet |-> "none"]
    /\ emitted = [c \in CategorySet |-> <<>>]
    /\ saves = [c \in CategorySet |-> 0]
    /\ feeds = {}
    /\ saveFailed = FALSE

CmInit == cmTrace = <<>>

HashIdle ==
    /\ hashOrig = <<>>
    /\ hashPerm = <<>>
    /\ hashOut = <<>>

RateIdle ==
    /\ lastRequestTime = 0
    /\ clock = 0
    /\ callers = <<>>

\* checkForChanges has not been called
NoCheck == [called |-> FALSE]

CheckIdle == changeCheck = NoCheck

\* consolidateResults has no results to work on and has not been called
ConsIdle == consolidation = [results |-> <<>>, returned |-> FALSE, output |-> <<>>]

\* no registry file yet, registerFeed not called
RegIdle ==
    /\ registry = NoFile
    /\ registered = <<>>

\* this.config = null: loadConfig has not stored a document
NotLoaded == [null |-> TRUE]

\* a source entry and a document of src/config/sources.json; an array is
\* tagged as such
SourceEntry(id) ==
    [ id |-> id, name |-> getName(id), type |-> "scraper", enabled |-> TRUE,
      categories |-> [array |-> getSupportedCategories(id)] ]

GlobalEntry == [enabledCategories |-> EnabledCategories]

GoodConfig ==
    [ sources |-> [array |-> <<SourceEntry("setn"), SourceEntry("hk01")>>],
      global  |-> GlobalEntry ]

\* the ConfigLoader singleton exists, on top of a valid file, and loadConfig
\* has not been called; the BrowserPool singleton has no browser
ConfigIdle ==
    configLoader = [file |-> [doc |-> GoodConfig], config |-> NotLoaded,
                    calls |-> <<>>]

PoolIdle ==
    browserPool = [browser |-> 0, contexts |-> <<>>, launches |-> 0,
                   calls |-> <<>>]

UtilIdle == ConfigIdle /\ PoolIdle

MoreIdle == CheckIdle /\ ConsIdle /\ RegIdle /\ UtilIdle

Init == AggInit /\ CmInit /\ HashIdle /\ RateIdle /\ MoreIdle

\* main(): a new process constructs the CacheManager (loadCache) and calls
\* aggregateNews, which runs up to the first await of every category task:
\* each scrapeCategory has started all its adapters (lines 211-220)
Main(filterCategories) ==
    /\ runs < MaxRuns
    /\ run # "running"
    /\ runs' = runs + 1
    /\ now' = now + 1
    /\ cache' = loadCache(disk, now')
    /\ LET cats == filterEnabled(filterCategories)
       IN  /\ enabled' = cats
           /\ run' = IF cats = <<>> THEN "fulfilled" ELSE "running"
           /\ promises' = [c \in CategorySet |->
                 IF includes(cats, c)
                 THEN [i \in 1..Len(activeSourceIds(c)) |-> Pending]
                 ELSE <<>>]
           /\ pass' = [c \in CategorySet |->
                 IF includes(cats, c) THEN "awaitSettled" ELSE "none"]
    /\ emitted' = [c \in CategorySet |-> <<>>]
    /\ saves' = [c \in CategorySet |-> 0]
    /\ feeds' = {}
    /\ saveFailed' = FALSE
    /\ UNCHANGED <<disk, cmTrace, hashVars, rateVars, moreVars>>

\* one adapter's promise settles
Settle(c, i) ==
    /\ run = "running"
    /\ pass[c] = "awaitSettled"
    /\ i \in 1..Len(promises[c])
    /\ promises[c][i] = Pending
    /\ \E o \in Outcomes(activeSourceIds(c)[i], c) :
           promises' = [promises EXCEPT ![c][i] = o]
    /\ UNCHANGED <<cache, disk, now, runs, run, enabled, pass, emitted, saves,
                   feeds, saveFailed, cmTrace, hashVars, rateVars, moreVars>>

\* continuation of `await Promise.allSettled(promises)`: lines 222-290.
\* An exception escaping forEach rejects scrapeCategory, hence Promise.all
\* (line 191), hence aggregateNews; main's catch calls process.exit(1).
ScrapeCategorySettled(c) ==
    /\ run = "running"
    /\ pass[c] = "awaitSettled"
    /\ allSettled(promises[c])
    /\ LET st == applyDecisions(cache, promises[c], c, now)
       IN  IF st.threw
           THEN /\ cache' = st.cache
                /\ pass' = [pass EXCEPT ![c] = "threw"]
                /\ run' = "rejected"
                /\ UNCHANGED <<disk, emitted, saves, saveFailed>>
           ELSE /\ cache' = stampCache(st.cache, now)
                /\ \E written \in BOOLEAN :
                       /\ disk' = IF written THEN writeFile(cache') ELSE disk
                       /\ saveFailed' = (saveFailed \/ ~written)
                /\ saves' = [saves EXCEPT ![c] = @ + 1]
                /\ emitted' = [emitted EXCEPT ![c] = st.results \o st.cacheHits]
                /\ pass' = [pass EXCEPT ![c] = "returned"]
                /\ run' = run
    /\ UNCHANGED <<now, runs, enabled, promises, feeds, cmTrace, hashVars, rateVars, moreVars>>

\* lines 173-187: the feed callbacks of one category
GenerateFeeds(c) ==
    /\ run = "running"
    /\ pass[c] = "returned"
    /\ feeds' = feeds \cup
          { generateSourceFeed(emitted[c][i], c) :
              i \in { j \in 1..Len(emitted[c]) :
                        emitted[c][j].success /\ Len(emitted[c][j].items) > 0 } }
    /\ pass' = [pass EXCEPT ![c] = "done"]
    /\ UNCHANGED <<cache, disk, now, runs, run, enabled, promises, emitted,
                   saves, saveFailed, cmTrace, hashVars, rateVars, moreVars>>

\* lines 191-201: Promise.all fulfilled, summary, index page
Complete ==
    /\ run = "running"
    /\ \A c \in Range(enabled) : pass[c] = "done"
    /\ run' = "fulfilled"
    /\ UNCHANGED <<cache, disk, now, runs, enabled, promises, pass, emitted,
                   saves, feeds, saveFailed, cmTrace, hashVars, rateVars, moreVars>>

Next ==
    \/ \E f \in FilterChoices : Main(f)
    \/ \E c \in CategorySet, i \in 1..Len(SourceOrder) : Settle(c, i)
    \/ \E c \in CategorySet : ScrapeCategorySettled(c)
    \/ \E c \in CategorySet : GenerateFeeds(c)
    \/ Complete

Spec == Init /\ [][Next]_vars

-----------------------------------------------------------------------------
(* CacheManager driven directly through its public methods *)

CmSourceIds == {"setn", "hk01"}
CmCategory == "entertainment"

CmLists ==
    LET s == "setn"
        c == CmCategory
    IN  { <<>>, <<ItemA(s, c)>>, <<ItemA(s, c), ItemB(s, c)>>,
          <<ItemB(s, c), ItemA2(s, c)>>, <<ItemBad(s, c)>>,
          <<ItemA(s, c), ItemBad(s, c)>> }

\* one completed call: arguments, the cache it ran on, and how it ended
CmCall(op, sourceId, items, before, result) ==
    [ op |-> op, sourceId |-> sourceId, category |-> CmCategory,
      items |-> items, before |-> before, result |-> result,
      process |-> runs ]

CallHasChanges(sourceId, items) ==
    /\ Len(cmTrace) < MaxOps
    /\ cmTrace' = Append(cmTrace,
          CmCall("hasChanges", sourceId, items, cache,
                 IF hasChangesThrows(cache, sourceId, CmCategory, items)
                 THEN "threw"
                 ELSE IF hasChanges(cache, sourceId, CmCategory, items)
                      THEN "true" ELSE "false"))
    /\ UNCHANGED <<aggVars, hashVars, rateVars, moreVars>>

CallUpdateCache(sourceId, items) ==
    /\ Len(cmTrace) < MaxOps
    /\ IF updateCacheThrows(items)
       THEN /\ cmTrace' = Append(cmTrace,
                   CmCall("updateCache", sourceId, items, cache, "threw"))
            /\ cache' = cache
       ELSE /\ cmTrace' = Append(cmTrace,
                   CmCall("updateCache", sourceId, items, cache, "returned"))
            /\ cache' = updateCache(cache, sourceId, CmCategory, items, now)
    /\ UNCHANGED <<disk, now, runs, run, enabled, promises, pass, emitted,
                   saves, feeds, saveFailed, hashVars, rateVars, moreVars>>

CmNext ==
    \/ \E s \in CmSourceIds, items \in CmLists : CallHasChanges(s, items)
    \/ \E s \in CmSourceIds, items \in CmLists : CallUpdateCache(s, items)

SpecCache == Init /\ [][CmNext]_vars

-----------------------------------------------------------------------------
(* The CacheManager constructed from whatever cache/news-cache.json holds *)

\* JSON values that are not objects, tagged by their kind
JsonNull == [null |-> TRUE]
JsonNumber == [number |-> 5]
JsonArray == [array |-> <<"x">>]

\* a file written by saveCache after one updateCache
GoodFile ==
    writeFile(updateCache(EmptyCache(0), "setn", CmCategory,
                          <<ItemA("setn", CmCategory), ItemB("setn", CmCategory)>>, 0))

\* no file; a file that is not JSON; the documents null, {} without sources,
\* and with sources null, a number or an array; and a file saveCache wrote
StartFiles ==
    { NoFile,
      [text |-> "{ not json"],
      [doc |-> JsonNull],
      [doc |-> [version |-> "1.0.0", lastUpdate |-> 0]],
      [doc |-> [version |-> "1.0.0", lastUpdate |-> 0, sources |-> JsonNull]],
      [doc |-> [version |-> "1.0.0", lastUpdate |-> 0, sources |-> JsonNumber]],
      [doc |-> [version |-> "1.0.0", lastUpdate |-> 0, sources |-> JsonArray]],
      GoodFile }

\* the process has called getInstance: the constructor ran loadCache
StartInit ==
    /\ disk \in StartFiles
    /\ cache = loadCache(disk, 1)
    /\ now = 1
    /\ runs = 0
    /\ run = "none"
    /\ enabled = <<>>
    /\ promises = [c \in CategorySet |-> <<>>]
    /\ pass = [c \in CategorySet |-> "none"]
    /\ emitted = [c \in CategorySet |-> <<>>]
    /\ saves = [c \in CategorySet |-> 0]
    /\ feeds = {}
    /\ saveFailed = FALSE
    /\ CmInit /\ HashIdle /\ RateIdle /\ MoreIdle

CallGetCachedItems(sourceId) ==
    /\ Len(cmTrace) < MaxOps
    /\ cmTrace' = Append(cmTrace,
          [ op |-> "getCachedItems", sourceId |-> sourceId,
            category |-> CmCategory, before |-> cache, result |-> "returned",
            value |-> getCachedItems(cache, sourceId, CmCategory),
            process |-> runs ])
    /\ UNCHANGED <<aggVars, hashVars, rateVars, moreVars>>

StartNext ==
    \/ \E s \in CmSourceIds, items \in CmLists : CallHasChanges(s, items)
    \/ \E s \in CmSourceIds : CallGetCachedItems(s)

SpecStartup == StartInit /\ [][StartNext]_vars

-----------------------------------------------------------------------------
(* updateCache, saveCache and a new process that loads the file again *)

\* item lists with instants that have whole seconds and milliseconds, with
\* and without the optional fields, with empty strings, and one Invalid Date
RestartLists ==
    LET s  == "setn"
        c  == CmCategory
        r1 == createNewsItem(s, "t1", "u1", c, 1999, Undefined, Undefined, 1, 61001)
        r2 == createNewsItem(s, "t2", "u2", c, 86400000, "d", "i2", 2, 61001)
        r3 == createNewsItem(s, "t3", "u3", c, 0, "", "", 1, 2)
    IN  { <<>>, <<r1, r2>>, <<r2, r1>>, <<r3>>, <<ItemBad(s, c)>> }

\* saveCache catches what writeFileSync throws and returns
CallSaveCache ==
    /\ Len(cmTrace) < MaxOps
    /\ cache' = stampCache(cache, now)
    /\ \E written \in BOOLEAN :
          /\ disk' = IF written THEN writeFile(cache') ELSE disk
          /\ cmTrace' = Append(cmTrace,
                [ op |-> "saveCache", before |-> cache, result |-> "returned",
                  written |-> written, process |-> runs ])
    /\ UNCHANGED <<now, runs, run, enabled, promises, pass, emitted, saves,
                   feeds, saveFailed, hashVars, rateVars, moreVars>>

\* the process ends and a new one constructs its CacheManager from the file
NewProcess ==
    /\ runs < MaxRuns
    /\ runs' = runs + 1
    /\ now' = now + 1
    /\ cache' = loadCache(disk, now')
    /\ UNCHANGED <<disk, run, enabled, promises, pass, emitted, saves, feeds,
                   saveFailed, cmTrace, hashVars, rateVars, moreVars>>

RestartNext ==
    \/ \E s \in CmSourceIds, items \in RestartLists : CallUpdateCache(s, items)
    \/ CallSaveCache
    \/ NewProcess
    \/ \E s \in CmSourceIds : CallGetCachedItems(s)

SpecRestart == Init /\ [][RestartNext]_vars

-----------------------------------------------------------------------------
(* generateItemsHash applied to the permutations of an item list *)

HashPool ==
    { ItemA("setn", CmCategory), ItemA2("setn", CmCategory),
      ItemB("setn", CmCategory),
      createNewsItem("hk01", "t3", "u3", CmCategory, 2, "d", Undefined, 1, 2),
      createNewsItem("hk01", "t2", "u1", CmCategory, 1, Undefined, "i1", 3, 2) }

HashLists == UNION { [1..n -> HashPool] : n \in 0..MaxLen }

aggregateHash(items) == generateItemsHash(convertToCache(items))

swap(items, i) ==
    [k \in 1..Len(items) |->
        IF k = i THEN items[i + 1] ELSE IF k = i + 1 THEN items[i] ELSE items[k]]

HashInit ==
    /\ AggInit /\ CmInit /\ RateIdle /\ MoreIdle
    /\ hashOrig \in HashLists
    /\ hashPerm = hashOrig
    /\ hashOut = [orig |-> aggregateHash(hashOrig),
                  perm |-> aggregateHash(hashOrig)]

\* hash the list again after exchanging two neighbours
HashPermuted(i) ==
    /\ i \in 1..(Len(hashPerm) - 1)
    /\ hashPerm' = swap(hashPerm, i)
    /\ hashOut' = [hashOut EXCEPT !.perm = aggregateHash(hashPerm')]
    /\ UNCHANGED <<hashOrig, aggVars, cmTrace, rateVars, moreVars>>

HashNext == \E i \in 1..MaxLen : HashPermuted(i)

SpecHash == HashInit /\ [][HashNext]_vars

-----------------------------------------------------------------------------
(* NewsSource.enforceRateLimit on one adapter instance *)

rateLimit == 5

minInterval_perSecond == 1000 \div rateLimit

minInterval == (60 * 1000) \div rateLimit

\* no earlier call of the adapter is still inside enforceRateLimit
noCallPending == \A j \in 1..Len(callers) : callers[j].pc = "returned"

\* Date.now() when the adapter is constructed: lastRequestTime = 0 lies
\* more than minInterval in the past
StartClock == 2 * minInterval

RateInit ==
    /\ AggInit /\ CmInit /\ HashIdle /\ MoreIdle
    /\ lastRequestTime = 0
    /\ clock = StartClock
    /\ callers = <<>>

\* a call runs synchronously up to its await (lines 14-20), or to its end
\* when it does not have to wait (lines 14-18, 23)
EnforceRateLimit ==
    /\ Len(callers) < MaxCallers
    /\ LET timeSinceLastRequest == clock - lastRequestTime
       IN  IF timeSinceLastRequest < minInterval
           THEN /\ callers' = Append(callers,
                       [ pc |-> "waiting",
                         wakeAt |-> clock + (minInterval - timeSinceLastRequest),
                         calledAt |-> clock, alone |-> noCallPending ])
                /\ UNCHANGED lastRequestTime
           ELSE /\ callers' = Append(callers,
                       [ pc |-> "returned", returnedAt |-> clock,
                         calledAt |-> clock, alone |-> noCallPending ])
                /\ lastRequestTime' = clock
    /\ UNCHANGED <<clock, aggVars, cmTrace, hashVars, moreVars>>

\* the setTimeout of line 20 fires, not before its delay; line 23 follows
TimerFires(i) ==
    /\ i \in 1..Len(callers)
    /\ callers[i].pc = "waiting"
    /\ clock >= callers[i].wakeAt
    /\ lastRequestTime' = clock
    /\ callers' = [callers EXCEPT ![i] =
          [ pc |-> "returned", returnedAt |-> clock,
            calledAt |-> callers[i].calledAt, alone |-> callers[i].alone ]]
    /\ UNCHANGED <<clock, aggVars, cmTrace, hashVars, moreVars>>

Tick ==
    /\ clock < StartClock + MaxTicks * (minInterval \div 2)
    /\ clock' = clock + (minInterval \div 2)
    /\ UNCHANGED <<lastRequestTime, callers, aggVars, cmTrace, hashVars, moreVars>>

RateNext ==
    \/ EnforceRateLimit
    \/ \E i \in 1..MaxCallers : TimerFires(i)
    \/ Tick

SpecRate == RateInit /\ [][RateNext]_vars

-----------------------------------------------------------------------------
(* NewsAggregator.checkForChanges, called between cache updates while the   *)
(* clock advances; here `now` is in milliseconds                           *)

\* sources[].categories[].updateFrequency of config/sources.json, in minutes:
\* 2 for the entertainment endpoints, 5 for the crypto endpoints
configuredUpdateFrequency(sourceId, category) ==
    IF category = "crypto" THEN 5 ELSE 2

msPerMinute == 1000 * 60

\* CacheManager.getCacheStats().sources
getCacheStats(c) ==
    { [ sourceId   |-> c.sources[k].sourceId,
        category   |-> c.sources[k].category,
        itemCount  |-> Len(c.sources[k].items),
        lastUpdate |-> c.sources[k].lastUpdate ] : k \in DOMAIN c.sources }

\* lines 114-142 for one (category, source) pair: TRUE when the pair sets
\* hasAnyChanges.  ageMinutes > updateFrequency is compared in milliseconds.
pairHasChanges(c, sourceId, category, t) ==
    LET stats    == getCacheStats(c)
        hasCache == \E s \in stats : s.sourceId = sourceId /\ s.category = category
    IN  IF ~hasCache THEN TRUE
        ELSE LET sourceCache == CHOOSE s \in stats :
                                   s.sourceId = sourceId /\ s.category = category
                 ageMs       == t - sourceCache.lastUpdate
                 configured  == configuredUpdateFrequency(sourceId, category)
                 updateFrequency == IF configured = 0 THEN 60 ELSE configured
             IN  ageMs > updateFrequency * msPerMinute

checkForChanges_allPairs(c, t) ==
    \A category \in Range(EnabledCategories) : \A sourceId \in Sources :
        includes(getSupportedCategories(sourceId), category)
            => pairHasChanges(c, sourceId, category, t)

checkForChanges(c, t) ==
    \E category \in Range(EnabledCategories) : \E sourceId \in Sources :
        /\ includes(getSupportedCategories(sourceId), category)
        /\ pairHasChanges(c, sourceId, category, t)

\* a scrape pass stored fresh items for (sourceId, category): updateCache
\* stamps the entry with the current time
CacheRefreshed(sourceId, category) ==
    /\ includes(getSupportedCategories(sourceId), category)
    /\ cache' = updateCache(cache, sourceId, category,
                            <<ItemA(sourceId, category)>>, now)
    /\ changeCheck' = NoCheck
    /\ UNCHANGED <<disk, now, runs, run, enabled, promises, pass, emitted,
                   saves, feeds, saveFailed, cmTrace, hashVars, rateVars,
                   consolidation, regVars, utilVars>>

ClockAdvances ==
    /\ now < MaxHalfMinutes * (msPerMinute \div 2)
    /\ now' = now + (msPerMinute \div 2)
    /\ changeCheck' = NoCheck
    /\ UNCHANGED <<cache, disk, runs, run, enabled, promises, pass, emitted,
                   saves, feeds, saveFailed, cmTrace, hashVars, rateVars,
                   consolidation, regVars, utilVars>>

CallCheckForChanges ==
    /\ changeCheck' = [called |-> TRUE, result |-> checkForChanges(cache, now),
                       process |-> runs]
    /\ UNCHANGED <<aggVars, cmTrace, hashVars, rateVars, consolidation, regVars, utilVars>>

CheckNext ==
    \/ \E s \in Sources, c \in CategorySet : CacheRefreshed(s, c)
    \/ ClockAdvances
    \/ CallCheckForChanges

SpecCheck == Init /\ [][CheckNext]_vars

-----------------------------------------------------------------------------
(* aggregateNews runs in which every fetch succeeds, the time that passes   *)
(* between them, and checkForChanges called after a run; `now` is in ms    *)

\* the adapter's scrapeCategory fulfils with success = true
FetchedOutcomes(sourceId, category) ==
    { Fulfilled(createSuccessResult(sourceId, items, category)) :
          items \in ItemLists(sourceId, category)
                      \ {<<ItemBad(sourceId, category)>>} }

SettleFetched(c, i) ==
    /\ run = "running"
    /\ pass[c] = "awaitSettled"
    /\ i \in 1..Len(promises[c])
    /\ promises[c][i] = Pending
    /\ \E o \in FetchedOutcomes(activeSourceIds(c)[i], c) :
           promises' = [promises EXCEPT ![c][i] = o]
    /\ UNCHANGED <<cache, disk, now, runs, run, enabled, pass, emitted, saves,
                   feeds, saveFailed, cmTrace, hashVars, rateVars, moreVars>>

FreshNext ==
    \/ Main(<<>>)
    \/ \E c \in CategorySet, i \in 1..Len(SourceOrder) : SettleFetched(c, i)
    \/ \E c \in CategorySet : ScrapeCategorySettled(c)
    \/ \E c \in CategorySet : GenerateFeeds(c)
    \/ Complete
    \/ (run = "fulfilled" /\ ClockAdvances)
    \/ (run = "fulfilled" /\ CallCheckForChanges)

SpecFresh == Init /\ [][FreshNext]_vars

-----------------------------------------------------------------------------
(* NewsAggregator.consolidateResults and normalizeTitle.  Here a title is   *)
(* the sequence of its characters.                                         *)

\* \w of the regular expression: ASCII letters, digits and '_'
WordChars == {"a", "b", "c", "d", "e", "f", "B", "F", "7", "_"}
\* \s of the regular expression
SpaceChars == {" ", "\t"}

lowerCaseChar(ch) == IF ch = "F" THEN "f" ELSE IF ch = "B" THEN "b" ELSE ch

toLowerCase(str) == [i \in 1..Len(str) |-> lowerCaseChar(str[i])]

\* .replace(/[^\w\s]/g, '')
stripPunctuation(str) ==
    SelectSeq(str, LAMBDA ch : ch \in WordChars \cup SpaceChars)

\* .replace(/\s+/g, ' '): of a run of white space only the first character
\* stays, as a blank
collapseWhitespace(str) ==
    LET first == SelectSeq([i \in 1..Len(str) |-> i],
                           LAMBDA i : ~( /\ str[i] \in SpaceChars
                                         /\ i > 1
                                         /\ str[i - 1] \in SpaceChars ))
    IN  [k \in 1..Len(first) |->
            IF str[first[k]] \in SpaceChars THEN " " ELSE str[first[k]]]

\* .trim()
trim(str) ==
    LET solid == { i \in 1..Len(str) : str[i] \notin SpaceChars }
    IN  IF solid = {} THEN <<>>
        ELSE SubSeq(str,
                    CHOOSE i \in solid : \A j \in 1..(i - 1) : str[j] \in SpaceChars,
                    CHOOSE i \in solid :
                        \A j \in (i + 1)..Len(str) : str[j] \in SpaceChars)

slice_oneShort(seq, start, end) ==
    SubSeq(seq, start + 1, IF end - 1 < Len(seq) THEN end - 1 ELSE Len(seq))

\* Array.prototype.slice and String.prototype.slice for 0 <= start <= end
slice(seq, start, end) ==
    SubSeq(seq, start + 1, IF end < Len(seq) THEN end ELSE Len(seq))

normalizeTitle(title) ==
    slice(trim(collapseWhitespace(stripPunctuation(toLowerCase(title)))), 0, 100)

\* on a seen key the later item takes the place of the retained one
collectItem_keepsLast(st, item) ==
    LET titleKey == normalizeTitle(item.title)
    IN  IF titleKey \notin st.seenTitles
        THEN [ seenTitles |-> st.seenTitles \cup {titleKey},
               allItems   |-> Append(st.allItems, item) ]
        ELSE [ seenTitles |-> st.seenTitles,
               allItems   |-> [i \in 1..Len(st.allItems) |->
                                 IF normalizeTitle(st.allItems[i].title) = titleKey
                                 THEN item ELSE st.allItems[i]] ]

\* the body of the inner loop, lines 301-306
collectItem(st, item) ==
    LET titleKey == normalizeTitle(item.title)
    IN  IF titleKey \notin st.seenTitles
        THEN [ seenTitles |-> st.seenTitles \cup {titleKey},
               allItems   |-> Append(st.allItems, item) ]
        ELSE st

\* for (const item of result.items)
RECURSIVE collectItems(_, _)
collectItems(st, items) ==
    IF items = <<>> THEN st
    ELSE collectItems(collectItem(st, Head(items)), Tail(items))

collectResult_clearsOnEmpty(st, result) ==
    IF ~result.success THEN st
    ELSE IF result.items = <<>> THEN [st EXCEPT !.allItems = <<>>]
    ELSE collectItems(st, result.items)

\* the body of the outer loop, lines 298-307
collectResult(st, result) ==
    IF ~result.success THEN st
    ELSE collectItems(st, result.items)

\* for (const result of results)
RECURSIVE collectResults(_, _)
collectResults(st, results) ==
    IF results = <<>> THEN st
    ELSE collectResults(collectResult(st, Head(results)), Tail(results))

getTime(date) == date

\* (a, b) => b.publishedAt.getTime() - a.publishedAt.getTime()
compareFn(a, b) == getTime(b.publishedAt) - getTime(a.publishedAt)

insertSorted_beforeTies(sorted, item) ==
    LET k == Cardinality({ i \in 1..Len(sorted) : compareFn(sorted[i], item) < 0 })
    IN  SubSeq(sorted, 1, k) \o <<item>> \o SubSeq(sorted, k + 1, Len(sorted))

\* Array.prototype.sort is stable: an item goes behind the items that do
\* not compare greater than it
insertSorted(sorted, item) ==
    LET k == Cardinality({ i \in 1..Len(sorted) : compareFn(sorted[i], item) <= 0 })
    IN  SubSeq(sorted, 1, k) \o <<item>> \o SubSeq(sorted, k + 1, Len(sorted))

RECURSIVE sortInto(_, _)
sortInto(sorted, items) ==
    IF items = <<>> THEN sorted
    ELSE sortInto(insertSorted(sorted, Head(items)), Tail(items))

\* allItems.sort(compareFn)
sort(items) == sortInto(<<>>, items)

NothingCollected == [seenTitles |-> {}, allItems |-> <<>>]

consolidateResults_sliceBeforeSort(results) ==
    sort(slice(collectResults(NothingCollected, results).allItems,
               0, maxItemsPerFeed))

consolidateResults(results) ==
    slice(sort(collectResults(NothingCollected, results).allItems),
          0, maxItemsPerFeed)

ConsCategory == "entertainment"

\* a title longer than the 100 characters normalizeTitle keeps
LongTitle(last) == [i \in 1..101 |-> IF i <= 100 THEN "a" ELSE last]

\* the items adapters hand over: equal keys with different titles and
\* instants, different keys with equal instants
ConsPool ==
    { createNewsItem("setn", <<"F", "e", "d">>, "u1", ConsCategory, 2, "d", Undefined, 1, 3),
      createNewsItem("hk01", <<"f", "e", "d", "!", "!">>, "u2", ConsCategory, 3, "d", Undefined, 1, 3),
      createNewsItem("setn", <<"a", " ", "-", " ", "B">>, "u3", ConsCategory, 2, "d", Undefined, 2, 3),
      createNewsItem("hk01", <<"7", "_">>, "u3", ConsCategory, 1, "d", Undefined, 3, 3),
      createNewsItem("setn", LongTitle("b"), "u1", ConsCategory, 1, "d", Undefined, 3, 3),
      createNewsItem("hk01", LongTitle("c"), "u2", ConsCategory, 3, "d", Undefined, 2, 3) }

RECURSIVE countItems(_)
countItems(results) ==
    IF results = <<>> THEN 0
    ELSE Len(Head(results).items) + countItems(Tail(results))

inputSize(results) == Len(results) + countItems(results)

\* the adapter whose result comes next: the adapters take turns
nextAdapter(results) == SourceOrder[(Len(results) % Len(SourceOrder)) + 1]

\* one more adapter's result reaches the list, still without items
AdapterResult(success) ==
    /\ inputSize(consolidation.results) < MaxInput
    /\ consolidation' =
          [ results  |-> Append(consolidation.results,
                          IF success
                          THEN createSuccessResult(nextAdapter(consolidation.results),
                                                   <<>>, ConsCategory)
                          ELSE createErrorResult(nextAdapter(consolidation.results),
                                                 "error", ConsCategory)),
            returned |-> FALSE,
            output   |-> <<>> ]
    /\ UNCHANGED <<aggVars, cmTrace, hashVars, rateVars, changeCheck, regVars, utilVars>>

\* the last result of the list is successful and holds one more item
AdapterItem(item) ==
    LET n == Len(consolidation.results)
    IN  /\ inputSize(consolidation.results) < MaxInput
        /\ n >= 1
        /\ consolidation.results[n].success
        /\ consolidation' =
              [ results  |-> [consolidation.results EXCEPT
                                ![n].items = Append(@, item)],
                returned |-> FALSE,
                output   |-> <<>> ]
        /\ UNCHANGED <<aggVars, cmTrace, hashVars, rateVars, changeCheck, regVars, utilVars>>

CallConsolidateResults ==
    /\ ~consolidation.returned
    /\ consolidation' =
          [ results  |-> consolidation.results,
            returned |-> TRUE,
            output   |-> consolidateResults(consolidation.results) ]
    /\ UNCHANGED <<aggVars, cmTrace, hashVars, rateVars, changeCheck, regVars, utilVars>>

ConsNext ==
    \/ \E success \in BOOLEAN : AdapterResult(success)
    \/ \E item \in ConsPool : AdapterItem(item)
    \/ CallConsolidateResults

SpecCons == Init /\ [][ConsNext]_vars

-----------------------------------------------------------------------------
(* FeedRegistryManager.registerFeed (src/src/utils/FeedRegistry.ts).  The   *)
(* clock of a call is its ordinal.                                         *)

baseUrl == "https://damon1002.github.io/google-news-scraper"

\* feed.category of a descriptor: JSON.stringify leaves out a property whose
\* value is undefined, and reading a missing property gives undefined
categoryOf(feed) ==
    IF "category" \in DOMAIN feed THEN feed.category ELSE Undefined

stringifyFeed(feed) ==
    IF categoryOf(feed) = Undefined
    THEN [f \in DOMAIN feed \ {"category"} |-> feed[f]]
    ELSE feed

\* JSON.stringify(registry, null, 2)
stringify(reg) ==
    [ metadata |-> reg.metadata,
      feeds    |-> [i \in 1..Len(reg.feeds) |-> stringifyFeed(reg.feeds[i])] ]

createEmptyRegistry(t) ==
    [ metadata |-> [ totalFeeds      |-> 0,
                     lastUpdated     |-> t,
                     baseUrl         |-> baseUrl,
                     updateFrequency |-> "Every hour" ],
      feeds    |-> <<>> ]

loadRegistry(file, t) ==
    IF file = NoFile THEN createEmptyRegistry(t) ELSE file.doc

saveRegistry(reg) == [doc |-> stringify(reg)]

\* sources.join(', ')
RECURSIVE join(_, _)
join(strs, separator) ==
    IF strs = <<>> THEN ""
    ELSE IF Len(strs) = 1 THEN strs[1]
    ELSE strs[1] \o separator \o join(Tail(strs), separator)

generateDescription(name, category, sources) ==
    IF category # Undefined
    THEN capitalize(category) \o " news aggregated from " \o join(sources, ", ")
    ELSE "Combined news feed from all categories, aggregated from "
            \o join(sources, ", ")

withoutFeed_keepsAll(descriptors, name, category) == descriptors

\* registry.feeds.filter(feed => !(feed.name === name && feed.category === category))
withoutFeed(descriptors, name, category) ==
    SelectSeq(descriptors, LAMBDA feed :
                ~(feed.name = name /\ categoryOf(feed) = category))

\* String.prototype.localeCompare on category names
CategoryAlphabet == <<"crypto", "entertainment", "sports">>

localeCompare(a, b) ==
    IF a = b THEN 0
    ELSE IF IndexOf(CategoryAlphabet, a) < IndexOf(CategoryAlphabet, b) THEN -1
    ELSE 1

\* the comparator of lines 98-104
compareFeeds(a, b) ==
    IF a.name = "Master Feed" THEN -1
    ELSE IF b.name = "Master Feed" THEN 1
    ELSE IF categoryOf(a) = Undefined THEN -1
    ELSE IF categoryOf(b) = Undefined THEN 1
    ELSE localeCompare(categoryOf(a), categoryOf(b))

insertFeed_atEnd(sorted, feed) == Append(sorted, feed)

\* Array.prototype.sort is stable
insertFeed(sorted, feed) ==
    LET k == Cardinality({ i \in 1..Len(sorted) : compareFeeds(sorted[i], feed) <= 0 })
    IN  SubSeq(sorted, 1, k) \o <<feed>> \o SubSeq(sorted, k + 1, Len(sorted))

RECURSIVE sortFeedsInto(_, _)
sortFeedsInto(sorted, descriptors) ==
    IF descriptors = <<>> THEN sorted
    ELSE sortFeedsInto(insertFeed(sorted, Head(descriptors)), Tail(descriptors))

sortFeeds(descriptors) == sortFeedsInto(<<>>, descriptors)

\* lines 68-104: the registry object handed to saveRegistry
registerFeed(file, name, category, filePath, itemCount, sources, t) ==
    LET reg      == loadRegistry(file, t)
        url      == IF category # Undefined
                    THEN baseUrl \o "/feeds/" \o category \o ".xml"
                    ELSE baseUrl \o "/feeds/master.xml"
        feedInfo == [ name        |-> name,
                      category    |-> category,
                      url         |-> url,
                      filePath    |-> filePath,
                      description |-> generateDescription(name, category, sources),
                      itemCount   |-> itemCount,
                      lastUpdated |-> t,
                      sources     |-> sources ]
        pushed   == Append(withoutFeed(reg.feeds, name, category), feedInfo)
    IN  [ metadata |-> [reg.metadata EXCEPT !.totalFeeds = Len(pushed),
                                            !.lastUpdated = t],
          feeds    |-> sortFeeds(pushed) ]

\* the (name, category) pairs registerFeed is called with: a source feed, a
\* category feed under each category, and the master feed, which has no
\* category
RegKeys ==
    { [name |-> "SETN Entertainment - Entertainment", category |-> "entertainment"],
      [name |-> "News Feed", category |-> "entertainment"],
      [name |-> "News Feed", category |-> "crypto"],
      [name |-> "Master Feed", category |-> Undefined] }

ItemCounts == {0, 2}

\* a call of registerFeed; saveRegistry's writeFileSync may throw, which
\* leaves the file as it was
RegisterFeed(key, itemCount) ==
    /\ Len(registered) < MaxRegistrations
    /\ LET t   == Len(registered) + 1
           reg == registerFeed(registry, key.name, key.category,
                               "docs/feeds/" \o key.name \o ".xml", itemCount,
                               <<"SETN Entertainment">>, t)
       IN  \E written \in BOOLEAN :
              /\ registry' = IF written THEN saveRegistry(reg) ELSE registry
              /\ registered' = Append(registered,
                    [ name      |-> key.name,
                      category  |-> key.category,
                      itemCount |-> itemCount,
                      before    |-> registry,
                      result    |-> IF written THEN "returned" ELSE "threw" ])
    /\ UNCHANGED <<aggVars, cmTrace, hashVars, rateVars, changeCheck,
                   consolidation, utilVars>>

RegNext == \E key \in RegKeys, itemCount \in ItemCounts : RegisterFeed(key, itemCount)

SpecRegistry == Init /\ [][RegNext]_vars

-----------------------------------------------------------------------------
(* Properties of scrapeCategory and aggregateNews (specification Spec) *)

\* the step in which the forEach of one category's pass runs
settledStep(c) ==
    /\ pass[c] = "awaitSettled"
    /\ pass'[c] \in {"returned", "threw"}

\* the callback was invoked for index i: no earlier callback threw
reached(c, i) ==
    ~forEach([cache |-> cache, results |-> <<>>, cacheHits |-> <<>>,
              threw |-> FALSE],
             SubSeq(promises[c], 1, i - 1), c, 1, now).threw

fetchSucceeded(r) == r.status = "fulfilled" /\ r.value.success
fetchFailed(r) == r.status = "rejected" \/ (r.status = "fulfilled" /\ ~r.value.success)

\* the results of the returned list that belong to source s: a result carries
\* the display name, or the source id after a rejected promise
resultsOf(list, s) ==
    { j \in 1..Len(list) : list[j].source \in {getName(s), s} }

\* C1: when a fetch succeeds and hasChanges is true, then at the end of the
\* pass the cache entry of (sourceId, category) holds exactly the fetched
\* items in the fetched order, and the pass returns the fetched result
\* (success = true, the fetched items) for that source.
C1_ChangedFetchIsStoredAndEmitted ==
    [][\A c \in CategorySet : settledStep(c) =>
          \A i \in 1..Len(promises[c]) :
             LET r == promises[c][i]
                 s == activeSourceIds(c)[i]
             IN  ( /\ fetchSucceeded(r)
                   /\ reached(c, i)
                   /\ ~hasChangesThrows(cache, s, c, r.value.items)
                   /\ hasChanges(cache, s, c, r.value.items) )
                 => /\ hasEntry(cache', s, c)
                    /\ convertFromCache(entryOf(cache', s, c).items) = r.value.items
                    /\ pass'[c] = "returned"
                    /\ \E j \in 1..Len(emitted'[c]) : emitted'[c][j] = r.value
      ]_vars

\* C2: when a fetch succeeds and hasChanges is false, the cache entry of
\* (sourceId, category) is left as it was (items, itemsHash, lastUpdate), and
\* the result returned for that source has success = true and the items read
\* from the cache.
C2_UnchangedFetchKeepsCacheAndEmitsCached ==
    [][\A c \in CategorySet : settledStep(c) =>
          \A i \in 1..Len(promises[c]) :
             LET r == promises[c][i]
                 s == activeSourceIds(c)[i]
             IN  ( /\ fetchSucceeded(r)
                   /\ ~hasChangesThrows(cache, s, c, r.value.items)
                   /\ ~hasChanges(cache, s, c, r.value.items) )
                 => /\ hasEntry(cache', s, c)
                    /\ entryOf(cache', s, c) = entryOf(cache, s, c)
                    /\ pass'[c] = "returned" =>
                         /\ Cardinality(resultsOf(emitted'[c], s)) = 1
                         /\ \A j \in resultsOf(emitted'[c], s) :
                              /\ emitted'[c][j].success
                              /\ emitted'[c][j].items =
                                   convertFromCache(entryOf(cache, s, c).items)
      ]_vars

\* a pass returned a cached result whose items are not the fetched list, for
\* an entry stored by an earlier run
C2_Witness ==
    \E c \in CategorySet : \E i \in 1..Len(promises[c]) :
        LET r == promises[c][i]
            s == activeSourceIds(c)[i]
        IN  /\ pass[c] = "returned"
            /\ fetchSucceeded(r)
            /\ hasEntry(cache, s, c)
            /\ entryOf(cache, s, c).lastUpdate < now
            /\ \E j \in resultsOf(emitted[c], s) :
                 /\ emitted[c][j].success
                 /\ emitted[c][j].items # r.value.items
                 /\ emitted[c][j].items =
                      convertFromCache(entryOf(cache, s, c).items)
                 /\ Len(emitted[c][j].items) = Len(r.value.items)

\* C3: when a fetch fails (failed result or rejected promise) and the cache
\* holds at least one item for (sourceId, category), the result returned for
\* that source has success = true and exactly the cached items, and the cache
\* entry is not modified.
C3_FailedFetchFallsBackToCache ==
    [][\A c \in CategorySet : settledStep(c) =>
          \A i \in 1..Len(promises[c]) :
             LET r == promises[c][i]
                 s == activeSourceIds(c)[i]
             IN  ( /\ fetchFailed(r)
                   /\ hasEntry(cache, s, c)
                   /\ Len(entryOf(cache, s, c).items) >= 1 )
                 => /\ hasEntry(cache', s, c)
                    /\ entryOf(cache', s, c) = entryOf(cache, s, c)
                    /\ pass'[c] = "returned" =>
                         /\ Cardinality(resultsOf(emitted'[c], s)) = 1
                         /\ \A j \in resultsOf(emitted'[c], s) :
                              /\ emitted'[c][j].success
                              /\ emitted'[c][j].items =
                                   convertFromCache(entryOf(cache, s, c).items)
      ]_vars

\* a pass returned the cached items for a source whose promise rejected, next
\* to a source whose fetch returned a failed result and was served from cache
C3_Witness ==
    \E c \in CategorySet : \E i, k \in 1..Len(promises[c]) :
        /\ pass[c] = "returned"
        /\ promises[c][i].status = "rejected"
        /\ promises[c][k].status = "fulfilled" /\ ~promises[c][k].value.success
        /\ \A n \in {i, k} :
             \E j \in resultsOf(emitted[c], activeSourceIds(c)[n]) :
                 /\ emitted[c][j].success
                 /\ Len(emitted[c][j].items) >= 1
                 /\ emitted[c][j].items =
                      convertFromCache(entryOf(cache, activeSourceIds(c)[n], c).items)

\* C4: for every adapter whose fetch fails (failed result or rejected
\* promise) while the cache holds no items for (sourceId, category), the
\* returned list contains a result for that source with success = false.
C4_FailureWithoutCacheIsReported ==
    \A c \in CategorySet :
        pass[c] \in {"returned", "done"} =>
            \A i \in 1..Len(promises[c]) :
                LET r == promises[c][i]
                    s == activeSourceIds(c)[i]
                IN  ( /\ fetchFailed(r)
                      /\ Len(getCachedItems(cache, s, c)) = 0 )
                    => \E j \in resultsOf(emitted[c], s) : ~emitted[c][j].success

\* C5: when one adapter's promise rejects and another adapter's fetch for the
\* same category succeeds, scrapeCategory does not reject and the returned
\* list holds a successful result for the adapter that succeeded.
C5_RejectionIsIsolated ==
    \A c \in CategorySet :
        ( /\ allSettled(promises[c])
          /\ \E i \in 1..Len(promises[c]) : promises[c][i].status = "rejected"
          /\ \E k \in 1..Len(promises[c]) : fetchSucceeded(promises[c][k]) )
        => /\ pass[c] # "threw"
           /\ pass[c] \in {"returned", "done"} =>
                \A k \in 1..Len(promises[c]) :
                    fetchSucceeded(promises[c][k]) =>
                        \E j \in resultsOf(emitted[c], activeSourceIds(c)[k]) :
                            emitted[c][j].success

\* C6: aggregateNews always completes normally: whatever the adapters'
\* outcomes and the items they return, its promise is never rejected.
C6_AggregateNewsNeverRejects == run # "rejected"

-----------------------------------------------------------------------------
(* Property of enforceRateLimit (specification SpecRate) *)

\* C7: the instants at which any two enforceRateLimit calls on one adapter
\* instance return are at least minInterval apart.
C7_ReturnsAreSpaced ==
    \A i, j \in 1..Len(callers) :
        ( /\ i < j
          /\ callers[i].pc = "returned"
          /\ callers[j].pc = "returned" )
        => \/ callers[j].returnedAt - callers[i].returnedAt >= minInterval
           \/ callers[i].returnedAt - callers[j].returnedAt >= minInterval

-----------------------------------------------------------------------------
(* Property of generateItemsHash (specification SpecHash) *)

\* C8: the aggregate hash computed for any permutation of an item list
\* equals the aggregate hash computed for the list.
C8_HashIsOrderIndependent == hashOut.perm = hashOut.orig

\* a permutation that moved two items with different content hashes
C8_Witness ==
    /\ Len(hashPerm) >= 2
    /\ hashPerm # hashOrig
    /\ \E i \in 1..Len(hashPerm) :
          generateContentHash(hashPerm[i]) # generateContentHash(hashOrig[i])
    /\ \E i \in 1..(Len(hashPerm) - 1) :
          generateContentHash(hashPerm[i]) > generateContentHash(hashPerm[i + 1])

-----------------------------------------------------------------------------
(* Properties of hasChanges and updateCache (specification SpecCache) *)

sameQuery(a, b) ==
    /\ a.sourceId = b.sourceId
    /\ a.category = b.category
    /\ a.items = b.items

neverSeen(call) == ~hasEntry(call.before, call.sourceId, call.category)

\* hasChanges called twice in a row with the same arguments, for a key the
\* cache has never stored
repeatedFirstQuery(i) ==
    /\ i + 1 <= Len(cmTrace)
    /\ cmTrace[i].op = "hasChanges"
    /\ cmTrace[i + 1].op = "hasChanges"
    /\ sameQuery(cmTrace[i], cmTrace[i + 1])
    /\ neverSeen(cmTrace[i])

\* updateCache(key, L) returned for a non-empty L and hasChanges(key, L) follows
queryAfterUpdate(i) ==
    /\ i + 1 <= Len(cmTrace)
    /\ cmTrace[i].op = "updateCache"
    /\ cmTrace[i].result = "returned"
    /\ cmTrace[i].items # <<>>
    /\ cmTrace[i + 1].op = "hasChanges"
    /\ sameQuery(cmTrace[i], cmTrace[i + 1])

\* C9 as claimed: hasChanges returns true on the first call for a never-seen
\* key and false on an immediately repeated call with the same items.
C9_RepeatedCallReportsUnchanged ==
    \A i \in 1..Len(cmTrace) :
        repeatedFirstQuery(i) =>
            /\ cmTrace[i].result = "true"
            /\ cmTrace[i + 1].result = "false"

\* C9 amended: hasChanges returns true on the first call for a never-seen key
\* and true again on an immediately repeated call with the same items (it
\* records nothing); the repeated call returns false once updateCache has
\* stored those items, provided the list is not empty.
C9_RepeatedCallStaysChangedUntilUpdate ==
    \A i \in 1..Len(cmTrace) :
        /\ repeatedFirstQuery(i) =>
              /\ cmTrace[i].result = "true"
              /\ cmTrace[i + 1].result = "true"
              /\ cmTrace[i + 1].before = cmTrace[i].before
        /\ queryAfterUpdate(i) => cmTrace[i + 1].result = "false"

\* hasChanges asked twice about the same non-empty list for a never-seen key
C9_Witness ==
    \E i \in 1..Len(cmTrace) :
        /\ repeatedFirstQuery(i)
        /\ Len(cmTrace[i].items) >= 2
        /\ ~convertToCacheThrows(cmTrace[i].items)

storedHashDiffers(call) ==
    entryOf(call.before, call.sourceId, call.category).itemsHash
        # generateItemsHash(convertToCache(call.items))

-----------------------------------------------------------------------------
(* Property of checkForChanges (specification SpecCheck) *)

\* the (category, source) pairs the two loops of checkForChanges visit
CheckedPairs ==
    { p \in CategorySet \X Sources : includes(getSupportedCategories(p[2]), p[1]) }

entryAgeMs(p) == now - entryOf(cache, p[2], p[1]).lastUpdate

refreshIntervalMs(p) == configuredUpdateFrequency(p[2], p[1]) * msPerMinute

\* C11: checkForChanges returns false when every (enabled category, adapter
\* supporting it) pair has a cache entry younger than the refresh interval
\* configured for it, and returns true when some pair has no entry or an
\* entry older than its refresh interval.
C11_FalseWhenAllFreshTrueWhenMissingOrStale ==
    changeCheck.called =>
        /\ ( \A p \in CheckedPairs :
                /\ hasEntry(cache, p[2], p[1])
                /\ entryAgeMs(p) < refreshIntervalMs(p) )
           => changeCheck.result = FALSE
        /\ ( \E p \in CheckedPairs :
                \/ ~hasEntry(cache, p[2], p[1])
                \/ entryAgeMs(p) > refreshIntervalMs(p) )
           => changeCheck.result = TRUE

\* checkForChanges returned true although every pair has an entry, because
\* exactly one entry is older than its interval, by less than a minute
C11_Witness ==
    /\ changeCheck.called
    /\ changeCheck.result = TRUE
    /\ \A p \in CheckedPairs : hasEntry(cache, p[2], p[1])
    /\ Cardinality({ p \in CheckedPairs :
                        entryAgeMs(p) > refreshIntervalMs(p) }) = 1
    /\ \E p \in CheckedPairs :
          /\ entryAgeMs(p) > refreshIntervalMs(p)
          /\ entryAgeMs(p) < refreshIntervalMs(p) + msPerMinute
    /\ \E p \in CheckedPairs : entryAgeMs(p) = refreshIntervalMs(p)

-----------------------------------------------------------------------------
(* Further properties of scrapeCategory and aggregateNews (specification    *)
(* Spec)                                                                   *)

\* the pass of category c has ended, by returning or by an exception
passEnded(c) == pass[c] \in {"returned", "done", "threw"}

\* C12: in each scrapeCategory pass saveCache is called exactly once, and only
\* after every adapter promise of the pass has settled and the decision for
\* every adapter has been applied: no save while the pass awaits its
\* promises, one save when the pass has ended.
C12_SavedOncePerPass ==
    \A c \in CategorySet :
        /\ pass[c] = "awaitSettled" => saves[c] = 0
        /\ passEnded(c) => /\ saves[c] = 1
                           /\ allSettled(promises[c])

\* the cache entries stored by updateCache in the current run: Main advances
\* the clock, so entries of earlier runs carry an older stamp
writtenThisRun == { k \in DOMAIN cache.sources : cache.sources[k].lastUpdate = now }

\* C13: the categories' decide-update-persist steps do not interleave, so no
\* update is lost: once aggregateNews has completed a run over at least one
\* category and no save failed, the cache file is the serialised in-memory
\* cache and holds every entry written by any category in that run, with
\* the items that category's adapter fetched.
C13_NoLostUpdateAcrossCategories ==
    ( /\ run = "fulfilled"
      /\ enabled # <<>>
      /\ ~saveFailed )
    => /\ disk # NoFile
       /\ disk.doc = stringifyCache(cache)
       /\ \A k \in writtenThisRun :
             /\ k \in DOMAIN disk.doc.sources
             /\ disk.doc.sources[k] = stringifyCache(cache).sources[k]
       /\ \A c \in Range(enabled) : \A i \in 1..Len(promises[c]) :
             LET s == activeSourceIds(c)[i]
             IN  getCacheKey(s, c) \in writtenThisRun
                 => /\ fetchSucceeded(promises[c][i])
                    /\ convertFromCache(entryOf(disk.doc, s, c).items)
                         = promises[c][i].value.items

\* a second run over both categories completed without a failed save, and
\* each category stored an entry in that run
C13_Witness ==
    /\ run = "fulfilled"
    /\ runs = 2
    /\ Len(enabled) = 2
    /\ ~saveFailed
    /\ \A c \in Range(enabled) :
          /\ hasEntry(cache, "setn", c)
          /\ getCacheKey("setn", c) \in writtenThisRun
          /\ Len(entryOf(cache, "setn", c).items) >= 2

\* the cache holds at least one item for (s, c)
holdsItems(ch, s, c) ==
    /\ hasEntry(ch, s, c)
    /\ Len(entryOf(ch, s, c).items) >= 1

\* the list returned by the pass holds exactly one result for s, successful
\* and with at least one item
emitsItems(list, s) ==
    /\ Cardinality(resultsOf(list, s)) = 1
    /\ \A j \in resultsOf(list, s) :
          /\ list[j].success
          /\ Len(list[j].items) >= 1

emptyFetch(r) == fetchSucceeded(r) /\ r.value.items = <<>>

-----------------------------------------------------------------------------
(* Properties of consolidateResults (specification SpecCons) *)

\* the items of the successful results, earlier result first, then earlier
\* position
RECURSIVE concatSuccessful(_)
concatSuccessful(results) ==
    IF results = <<>> THEN <<>>
    ELSE (IF Head(results).success THEN Head(results).items ELSE <<>>)
            \o concatSuccessful(Tail(results))

\* the normalized title key of every item an adapter may hand over
TitleKeyOf == [item \in ConsPool |-> normalizeTitle(item.title)]

\* the normalized title keys of a list of items, position by position
titleKeys(items) == [i \in 1..Len(items) |-> TitleKeyOf[items[i]]]

\* the positions of a list of keys that bring their key for the first time
firstSeen(keys) ==
    { i \in 1..Len(keys) : \A j \in 1..(i - 1) : keys[j] # keys[i] }

\* the first position of a key in a list of keys, 0 if it has none
firstWithKey(keys, key) ==
    IF \E i \in 1..Len(keys) : keys[i] = key
    THEN CHOOSE i \in 1..Len(keys) :
            keys[i] = key /\ \A j \in 1..(i - 1) : keys[j] # key
    ELSE 0

consInput == concatSuccessful(consolidation.results)
consOutput == consolidation.output

\* C15: consolidateResults never returns two items with the same normalized
\* title key, and the item it returns for a key is the first item with that
\* key in the concatenated successful results, whatever the publication
\* times.
C15_OneItemPerKeyFirstSeenWins ==
    consolidation.returned =>
        LET input   == consInput
            keysIn  == titleKeys(input)
            keysOut == titleKeys(consOutput)
        IN  /\ \A i, j \in 1..Len(keysOut) : i # j => keysOut[i] # keysOut[j]
            /\ \A k \in 1..Len(keysOut) :
                  /\ firstWithKey(keysIn, keysOut[k]) # 0
                  /\ consOutput[k] = input[firstWithKey(keysIn, keysOut[k])]

\* the first item with some key was returned although a later result brought
\* a newer item with the same key and another title
C15_Witness ==
    /\ consolidation.returned
    /\ Len(consolidation.results) >= 2
    /\ LET input  == consInput
           keysIn == titleKeys(input)
       IN  \E i \in firstSeen(keysIn) : \E j \in 1..Len(input) :
              /\ i < j
              /\ i <= Len(consolidation.results[1].items)
              /\ j > Len(consolidation.results[1].items)
              /\ keysIn[j] = keysIn[i]
              /\ input[j].title # input[i].title
              /\ input[j].publishedAt > input[i].publishedAt
              /\ \E k \in 1..Len(consOutput) : consOutput[k] = input[i]

\* C16: the list consolidateResults returns is ordered by publication instant,
\* newest first, and items with equal instants keep the relative order they
\* had in the deduplicated sequence before the sort.
C16_NewestFirstAndStable ==
    consolidation.returned =>
        LET keysIn == titleKeys(consInput)
            from   == [k \in 1..Len(consOutput) |->
                         firstWithKey(keysIn, TitleKeyOf[consOutput[k]])]
        IN  \A i, j \in 1..Len(consOutput) :
                i < j =>
                    /\ consOutput[i].publishedAt >= consOutput[j].publishedAt
                    /\ consOutput[i].publishedAt = consOutput[j].publishedAt
                         => from[i] < from[j]

\* the sort moved a newer item in front of an older one and kept two items
\* with equal instants in their order
C16_Witness ==
    /\ consolidation.returned
    /\ LET keysIn == titleKeys(consInput)
           from   == [k \in 1..Len(consOutput) |->
                        firstWithKey(keysIn, TitleKeyOf[consOutput[k]])]
       IN  /\ \E i, j \in 1..Len(consOutput) :
                /\ i < j
                /\ consOutput[i].publishedAt > consOutput[j].publishedAt
                /\ from[i] > from[j]
           /\ \E i, j \in 1..Len(consOutput) :
                /\ i < j
                /\ consOutput[i].publishedAt = consOutput[j].publishedAt

\* the deduplicated items of a list that are not in the returned list
cutItems(input, keysIn) ==
    { i \in firstSeen(keysIn) :
        \A k \in 1..Len(consOutput) : consOutput[k] # input[i] }

\* C17: consolidateResults returns at most maxItemsPerFeed items, and it
\* truncates after deduplicating and sorting: every returned item is at least
\* as new as every deduplicated item that was cut.
C17_TruncatesNewestFirst ==
    consolidation.returned =>
        LET input == consInput
            cut   == cutItems(input, titleKeys(input))
        IN  /\ Len(consOutput) <= maxItemsPerFeed
            /\ \A k \in 1..Len(consOutput) : \A i \in cut :
                  consOutput[k].publishedAt >= input[i].publishedAt

\* more keys than maxItemsPerFeed: an item was cut although it came before a
\* newer item that was returned
C17_Witness ==
    /\ consolidation.returned
    /\ Len(consOutput) = maxItemsPerFeed
    /\ LET input  == consInput
           keysIn == titleKeys(input)
           cut    == cutItems(input, keysIn)
       IN  /\ Cardinality(firstSeen(keysIn)) > maxItemsPerFeed
           /\ \E i \in cut : \E k \in 1..Len(consOutput) :
                /\ firstWithKey(keysIn, TitleKeyOf[consOutput[k]]) > i
                /\ consOutput[k].publishedAt > input[i].publishedAt

\* C18: the number of items consolidateResults returns is the smaller of
\* maxItemsPerFeed and the number of distinct normalized title keys among the
\* items of the successful results.
C18_CountIsMinOfLimitAndKeys ==
    consolidation.returned =>
        LET distinctKeys == Cardinality(Range(titleKeys(consInput)))
        IN  Len(consOutput) = IF distinctKeys < maxItemsPerFeed
                              THEN distinctKeys
                              ELSE maxItemsPerFeed

\* two sources with two items each and exactly one title key in common: one
\* item less than they brought is returned, newest first
C18_Witness ==
    /\ consolidation.returned
    /\ Len(consolidation.results) = 2
    /\ \A n \in 1..2 : /\ consolidation.results[n].success
                        /\ Len(consolidation.results[n].items) = 2
    /\ consolidation.results[1].source # consolidation.results[2].source
    /\ LET keys1 == Range(titleKeys(consolidation.results[1].items))
           keys2 == Range(titleKeys(consolidation.results[2].items))
       IN  /\ Cardinality(keys1) = 2
           /\ Cardinality(keys2) = 2
           /\ Cardinality(keys1 \cap keys2) = 1
    /\ Len(consOutput) = 3
    /\ \E i \in 1..2 : consOutput[i].publishedAt > consOutput[i + 1].publishedAt

\* result n is the only result with items
onlyNonEmpty(n) ==
    /\ consolidation.results[n].success
    /\ consolidation.results[n].items # <<>>
    /\ \A m \in 1..Len(consolidation.results) :
          m # n => consolidation.results[m].items = <<>>

\* C19 as claimed: consolidateResults returns the empty list for an empty
\* input, and when all results but one are empty, every item of the non-empty
\* result is in the returned list, as long as it has no more than
\* maxItemsPerFeed items.
C19_SingleSourceIsReturnedWhole ==
    consolidation.returned =>
        /\ consolidation.results = <<>> => consOutput = <<>>
        /\ \A n \in 1..Len(consolidation.results) :
              ( /\ onlyNonEmpty(n)
                /\ Len(consolidation.results[n].items) <= maxItemsPerFeed )
              => \A i \in 1..Len(consolidation.results[n].items) :
                    \E k \in 1..Len(consOutput) :
                        consOutput[k] = consolidation.results[n].items[i]

\* C19 amended: consolidateResults returns the empty list for an empty input,
\* and when all results but one are empty, the returned list holds exactly
\* the items of the non-empty result that bring a title key for the first
\* time in it, as long as there are no more than maxItemsPerFeed of them; an
\* item repeating the key of an earlier item of the same result is dropped.
C19_SingleSourceIsReturnedDeduplicated ==
    consolidation.returned =>
        /\ consolidation.results = <<>> => consOutput = <<>>
        /\ \A n \in 1..Len(consolidation.results) :
              onlyNonEmpty(n) =>
                  LET items == consolidation.results[n].items
                      first == firstSeen(titleKeys(items))
                  IN  Cardinality(first) <= maxItemsPerFeed
                      => /\ Len(consOutput) = Cardinality(first)
                         /\ \A i \in first :
                               \E k \in 1..Len(consOutput) : consOutput[k] = items[i]

\* the only non-empty result came after an empty one and held the same key
\* twice under different titles: the second of the two items is missing
C19_Witness ==
    /\ consolidation.returned
    /\ Len(consOutput) = 2
    /\ \E n \in 2..Len(consolidation.results) :
          /\ onlyNonEmpty(n)
          /\ Len(consolidation.results[n].items) = 3
          /\ LET items == consolidation.results[n].items
                 first == firstSeen(titleKeys(items))
             IN  /\ Cardinality(first) = 2
                 /\ \E i \in 1..Len(items) :
                       /\ i \notin first
                       /\ \A k \in 1..Len(consOutput) : consOutput[k] # items[i]

-----------------------------------------------------------------------------
(* Properties of registerFeed (specification SpecRegistry) *)

feedsOf(file) == IF file = NoFile THEN <<>> ELSE file.doc.feeds

\* the positions of a descriptor list that hold the key (name, category)
withKey(descriptors, name, category) ==
    { i \in 1..Len(descriptors) :
        descriptors[i].name = name /\ categoryOf(descriptors[i]) = category }

\* the registry file as the n-th registerFeed call left it
fileAfter(n) == IF n < Len(registered) THEN registered[n + 1].before ELSE registry

\* C20: after any sequence of registerFeed calls the registry holds at most
\* one descriptor per (name, category) key and metadata.totalFeeds is the
\* number of descriptors; a completed call puts its descriptor in the place
\* of the one stored under its key, if any, and keeps the descriptors of all
\* other keys.
C20_OneDescriptorPerKeyAndCountMatches ==
    /\ \A i \in 1..Len(feedsOf(registry)) :
          Cardinality(withKey(feedsOf(registry), feedsOf(registry)[i].name,
                              categoryOf(feedsOf(registry)[i]))) = 1
    /\ registry # NoFile =>
          registry.doc.metadata.totalFeeds = Len(feedsOf(registry))
    /\ \A n \in 1..Len(registered) :
          registered[n].result = "returned" =>
              LET call   == registered[n]
                  before == feedsOf(call.before)
                  after  == feedsOf(fileAfter(n))
                  mine   == withKey(after, call.name, call.category)
              IN  /\ Cardinality(mine) = 1
                  /\ \A k \in mine : /\ after[k].itemCount = call.itemCount
                                      /\ after[k].lastUpdated = n
                  /\ \A i \in 1..Len(before) :
                        i \notin withKey(before, call.name, call.category)
                            => \E k \in 1..Len(after) : after[k] = before[i]
                  /\ Len(after) = Len(before)
                        + (IF withKey(before, call.name, call.category) = {}
                           THEN 1 ELSE 0)

\* a call replaced the descriptor stored under its key by one with another
\* item count, next to a descriptor with the same name and another category
C20_Witness ==
    \E n \in 1..Len(registered) :
        LET call   == registered[n]
            before == feedsOf(call.before)
            after  == feedsOf(fileAfter(n))
        IN  /\ call.result = "returned"
            /\ \E i \in withKey(before, call.name, call.category) :
                  before[i].itemCount # call.itemCount
            /\ \E i \in 1..Len(before) :
                  /\ before[i].name = call.name
                  /\ categoryOf(before[i]) # call.category
            /\ Len(after) = 2
            /\ fileAfter(n).doc.metadata.totalFeeds = 2

\* C21: after any sequence of registerFeed calls the saved registry has the
\* 'Master Feed' descriptor, if there is one, at index 0, and the remaining
\* descriptors in non-decreasing lexicographic order of category.
C21_MasterFirstThenByCategory ==
    LET saved == feedsOf(registry)
    IN  /\ \A i \in 1..Len(saved) : saved[i].name = "Master Feed" => i = 1
        /\ \A i, j \in 1..Len(saved) :
              /\ i < j
              /\ saved[i].name # "Master Feed"
              /\ saved[j].name # "Master Feed"
              => IndexOf(CategoryAlphabet, categoryOf(saved[i]))
                    <= IndexOf(CategoryAlphabet, categoryOf(saved[j]))

\* the master feed was registered last, after an entertainment feed and then
\* a crypto feed, and stands first, before crypto, before entertainment
C21_Witness ==
    /\ Len(registered) = 3
    /\ registered[1].category = "entertainment"
    /\ registered[2].category = "crypto"
    /\ registered[3].name = "Master Feed"
    /\ Len(feedsOf(registry)) = 3
    /\ feedsOf(registry)[1].name = "Master Feed"
    /\ categoryOf(feedsOf(registry)[2]) = "crypto"
    /\ categoryOf(feedsOf(registry)[3]) = "entertainment"

-----------------------------------------------------------------------------
(* Properties of the feed generation of aggregateNews (specification Spec) *)

\* C22: once the feed callbacks of a category have run, every result that
\* scrapeCategory returned with success = true, a result with zero items
\* included, has its per-source feed file written and its descriptor
\* registered with itemCount equal to the number of items of the result.
C22_EverySuccessfulResultGetsAFeed ==
    \A c \in CategorySet :
        pass[c] = "done" =>
            \A i \in 1..Len(emitted[c]) :
                emitted[c][i].success =>
                    \E f \in feeds :
                        /\ f = generateSourceFeed(emitted[c][i], c)
                        /\ f.itemCount = Len(emitted[c][i].items)

\* C23: a completed aggregateNews run that processed at least one category
\* has written a master feed and registered the 'Master Feed' descriptor,
\* which has no category, next to the per-source feeds of the run.
C23_CompletedRunWritesMasterFeed ==
    (run = "fulfilled" /\ enabled # <<>>) =>
        \E f \in feeds : f.name = "Master Feed" /\ f.category = Undefined

-----------------------------------------------------------------------------
(* Properties of the CacheManager's start (specification SpecStartup) *)

\* the files without a usable sources map: all of StartFiles but the one
\* that saveCache wrote
BrokenFiles == StartFiles \ {GoodFile}

\* C24: constructing the CacheManager from a cache file that is missing, is
\* not valid JSON, or is valid JSON without a usable sources map gives a
\* store without entries: every getCachedItems call returns the empty list
\* and every hasChanges call returns true, whatever the key and the items.
C24_BrokenFileStartsEmpty ==
    disk \in BrokenFiles =>
        /\ \A s \in Sources, c \in CategorySet : ~hasEntry(cache, s, c)
        /\ \A n \in 1..Len(cmTrace) :
              /\ cmTrace[n].op = "getCachedItems" => cmTrace[n].value = <<>>
              /\ cmTrace[n].op = "hasChanges" => cmTrace[n].result = "true"

\* started from a document whose sources is a number, the store answered
\* one getCachedItems call and one hasChanges call for a non-empty list
C24_Witness ==
    /\ disk = [doc |-> [version |-> "1.0.0", lastUpdate |-> 0, sources |-> JsonNumber]]
    /\ \E n \in 1..Len(cmTrace) : cmTrace[n].op = "getCachedItems"
    /\ \E n \in 1..Len(cmTrace) :
          /\ cmTrace[n].op = "hasChanges"
          /\ cmTrace[n].items # <<>>
          /\ cmTrace[n].result = "true"

-----------------------------------------------------------------------------
(* Properties of the cache file across a restart (specification SpecRestart) *)

\* C25: cache entries survive a restart: when updateCache(sourceId, category,
\* L) has returned and the saveCache called right after it has written the
\* file, the getCachedItems(sourceId, category) that a later process makes as
\* its first call returns a list equal to L, item by item in the same order
\* and field by field.
C25_EntriesSurviveRestart ==
    \A n \in 1..(Len(cmTrace) - 2) :
        ( /\ cmTrace[n].op = "updateCache"
          /\ cmTrace[n].result = "returned"
          /\ cmTrace[n + 1].op = "saveCache"
          /\ cmTrace[n + 1].written
          /\ cmTrace[n + 1].process = cmTrace[n].process
          /\ cmTrace[n + 2].op = "getCachedItems"
          /\ cmTrace[n + 2].process > cmTrace[n].process
          /\ cmTrace[n + 2].sourceId = cmTrace[n].sourceId )
        => cmTrace[n + 2].value = cmTrace[n].items

\* a list of two items, one without description and image URL and with an
\* instant that is not a whole second, came back after a restart
C25_Witness ==
    /\ Len(cmTrace) = 3
    /\ cmTrace[1].op = "updateCache"
    /\ cmTrace[1].result = "returned"
    /\ Len(cmTrace[1].items) = 2
    /\ cmTrace[1].items[2].description = Undefined
    /\ cmTrace[1].items[2].publishedAt % 1000 # 0
    /\ cmTrace[2].op = "saveCache"
    /\ cmTrace[2].written
    /\ cmTrace[3].op = "getCachedItems"
    /\ cmTrace[3].process = 1
    /\ cmTrace[3].sourceId = cmTrace[1].sourceId
    /\ cmTrace[3].value = cmTrace[1].items
    /\ "description" \notin DOMAIN cmTrace[3].before.sources[
            getCacheKey(cmTrace[1].sourceId, CmCategory)].items[2]

-----------------------------------------------------------------------------
(* Properties of enforceRateLimit called sequentially (specification SpecRate) *)

\* every call so far was made when all earlier calls had returned
strictlySequential == \A i \in 1..Len(callers) : callers[i].alone

\* C26: when enforceRateLimit is called strictly sequentially on one adapter,
\* the first call returns at the instant it was made, every later call
\* returns no earlier than 60000/rateLimit ms after the return instant of
\* the call before it, which is the lastRequestTime that call recorded, and
\* lastRequestTime is the return instant of the last call that returned.
C26_SequentialCallsAreSpaced ==
    strictlySequential =>
        \A i \in 1..Len(callers) :
            callers[i].pc = "returned" =>
                /\ i = 1 => callers[i].returnedAt = callers[i].calledAt
                /\ i > 1 => callers[i].returnedAt
                               >= callers[i - 1].returnedAt + (60000 \div rateLimit)
                /\ i = Len(callers) => lastRequestTime = callers[i].returnedAt

\* three sequential calls: the first returned at once, the second waited and
\* returned exactly one interval later, the third was made later and did
\* not have to wait
C26_Witness ==
    /\ strictlySequential
    /\ Len(callers) = 3
    /\ \A i \in 1..3 : callers[i].pc = "returned"
    /\ callers[1].returnedAt = callers[1].calledAt
    /\ callers[2].calledAt < callers[2].returnedAt
    /\ callers[2].returnedAt = callers[1].returnedAt + (60000 \div rateLimit)
    /\ callers[3].returnedAt = callers[3].calledAt
    /\ lastRequestTime = callers[3].returnedAt

\* C28: every result that scrapeCategory returns for an adapter, fresh,
\* cached because unchanged, or cached as the fallback after a failed result
\* or a rejected promise, carries that adapter's display name in its source
\* field, so that the descriptor name of its per-source feed is the same on
\* every pass.
C28_EmittedResultsCarryDisplayName ==
    \A c \in CategorySet :
        pass[c] \in {"returned", "done"} =>
            \A k \in 1..Len(emitted[c]) :
                /\ \E s \in Sources : emitted[c][k].source = getName(s)
                /\ generateSourceFeed(emitted[c][k], c).name
                      \in { getName(s) \o " - " \o capitalize(c) : s \in Sources }

-----------------------------------------------------------------------------
(* Properties of checkForChanges after a run (specification SpecFresh) *)

\* C27: after an aggregateNews run over all enabled categories in which
\* every adapter's fetch succeeded and every save was written, a
\* checkForChanges call made in the instant in which the run saved the
\* cache, before any time has passed, returns false.
C27_SuccessfulRunLeavesCacheFresh ==
    ( /\ run = "fulfilled"
      /\ enabled = EnabledCategories
      /\ ~saveFailed
      /\ now = cache.lastUpdate
      /\ \A c \in CategorySet : \A i \in 1..Len(promises[c]) :
            fetchSucceeded(promises[c][i])
      /\ changeCheck.called
      /\ changeCheck.process = runs )
    => ~changeCheck.result

-----------------------------------------------------------------------------
(* ConfigLoader: loadConfig, validateConfig and the getters *)

\* JavaScript truthiness of a parsed document: null, 0 are falsy
truthy(v) ==
    /\ "null" \notin DOMAIN v
    /\ ~("number" \in DOMAIN v /\ v.number = 0)

isArray(v) == "array" \in DOMAIN v

\* an object literal, as opposed to null, a number or an array
isObject(v) == DOMAIN v \cap {"null", "number", "array"} = {}

\* !obj.f for the fields of the documents below: the field is missing
missing(obj, f) == ~isObject(obj) \/ f \notin DOMAIN obj

SourceWithoutId ==
    [ name |-> "SETN Entertainment", type |-> "scraper", enabled |-> TRUE,
      categories |-> [array |-> <<"entertainment">>] ]

SourceWithoutCategories ==
    [ id |-> "setn", name |-> "SETN Entertainment", type |-> "scraper",
      enabled |-> TRUE ]

\* the files loadConfig may find: unreadable, not JSON, JSON that is no
\* object, the valid document, and documents validateConfig rejects
ConfigFiles ==
    { NoFile,
      [text |-> "{ not json"],
      [doc |-> [null |-> TRUE]],
      [doc |-> [number |-> 0]],
      [doc |-> [number |-> 5]],
      [doc |-> GoodConfig],
      [doc |-> [global |-> GlobalEntry]],
      [doc |-> [sources |-> [number |-> 5], global |-> GlobalEntry]],
      [doc |-> [sources |-> [array |-> <<SourceEntry("setn")>>]]],
      [doc |-> [sources |-> [array |-> <<SourceWithoutId>>],
                global |-> GlobalEntry]],
      [doc |-> [sources |-> [array |-> <<SourceEntry("hk01"),
                                         SourceWithoutCategories>>],
                global |-> GlobalEntry]] }

sourceInvalid(source) ==
    \/ missing(source, "id") \/ missing(source, "name")
    \/ missing(source, "type")
    \/ missing(source, "categories") \/ ~isArray(source.categories)

\* validateConfig throws: reading a property of null, or one of its checks
validateConfigThrows(config) ==
    \/ "null" \in DOMAIN config
    \/ missing(config, "sources") \/ ~isArray(config.sources)
    \/ missing(config, "global")
    \/ \E i \in 1..Len(config.sources.array) :
          sourceInvalid(config.sources.array[i])

Failed == "threw: Failed to load configuration"
NotLoadedError == "threw: Configuration not loaded"
TypeError == "threw: TypeError"

\* loadConfig: the stored document is returned when there is one; otherwise
\* the file is read and parsed, the document is stored in this.config, and
\* only then validated
loadConfig(loader) ==
    IF truthy(loader.config)
    THEN [config |-> loader.config, result |-> "returned"]
    ELSE IF loader.file = NoFile \/ parseThrows(loader.file)
    THEN [config |-> loader.config, result |-> Failed]
    ELSE [ config |-> loader.file.doc,
           result |-> IF validateConfigThrows(loader.file.doc)
                      THEN Failed ELSE "returned" ]

\* getEnabledSources and getSourceById: this.config.sources.filter / .find
getEnabledSources(config) ==
    IF ~truthy(config) THEN NotLoadedError
    ELSE IF missing(config, "sources") \/ ~isArray(config.sources)
    THEN TypeError
    ELSE "returned"

getSourceById(config) == getEnabledSources(config)

\* getGlobalConfig: returns this.config.global, whatever it is
getGlobalConfig(config) ==
    IF ~truthy(config) THEN NotLoadedError ELSE "returned"

\* getEnabledCategories: this.config.global.enabledCategories
getEnabledCategories(config) ==
    IF ~truthy(config) THEN NotLoadedError
    ELSE IF missing(config, "global") THEN TypeError
    ELSE "returned"

Getters ==
    {"getEnabledSources", "getSourceById", "getGlobalConfig",
     "getEnabledCategories"}

getter(op, config) ==
    CASE op = "getEnabledSources"    -> getEnabledSources(config)
      [] op = "getSourceById"        -> getSourceById(config)
      [] op = "getGlobalConfig"      -> getGlobalConfig(config)
      [] op = "getEnabledCategories" -> getEnabledCategories(config)

configOthers == <<aggVars, cmTrace, hashVars, rateVars, changeCheck,
                  consolidation, regVars, browserPool>>

CallLoadConfig ==
    /\ Len(configLoader.calls) < MaxOps
    /\ LET r == loadConfig(configLoader)
       IN  configLoader' =
             [ configLoader EXCEPT
                 !.config = r.config,
                 !.calls = Append(@, [op |-> "loadConfig",
                                      result |-> r.result]) ]
    /\ UNCHANGED configOthers

CallGetter(op) ==
    /\ Len(configLoader.calls) < MaxOps
    /\ configLoader' =
         [ configLoader EXCEPT
             !.calls = Append(@, [ op |-> op,
                                   result |-> getter(op, configLoader.config) ]) ]
    /\ UNCHANGED configOthers

\* a process that has the ConfigLoader singleton and any of the files
ConfigInit ==
    /\ AggInit /\ CmInit /\ HashIdle /\ RateIdle
    /\ CheckIdle /\ ConsIdle /\ RegIdle /\ PoolIdle
    /\ configLoader \in
         { [file |-> f, config |-> NotLoaded, calls |-> <<>>] :
             f \in ConfigFiles }

ConfigNext ==
    \/ CallLoadConfig
    \/ \E op \in Getters : CallGetter(op)

SpecConfig == ConfigInit /\ [][ConfigNext]_vars

\* a loadConfig call has thrown
loadFailedAt(i) ==
    /\ configLoader.calls[i].op = "loadConfig"
    /\ configLoader.calls[i].result = Failed

\* C29: once a loadConfig call has failed, the loader is not loaded: every
\* later loadConfig call fails again and every later getter call throws
\* 'Configuration not loaded'
C29_FailedLoadLeavesLoaderUnloaded ==
    \A i, j \in 1..Len(configLoader.calls) :
        (i < j /\ loadFailedAt(i)) =>
            configLoader.calls[j].result =
                IF configLoader.calls[j].op = "loadConfig"
                THEN Failed ELSE NotLoadedError

-----------------------------------------------------------------------------
(* BrowserPool: initBrowser, getContext and cleanup, with getContext calls
   that overlap at their awaits *)

maxContexts == 3

MaxGetContext == 4   \* getContext calls between two cleanups

poolOthers == <<aggVars, cmTrace, hashVars, rateVars, changeCheck,
                consolidation, regVars, configLoader>>

\* no getContext call is between its start and its return
poolQuiet ==
    \A i \in 1..Len(browserPool.calls) : browserPool.calls[i].pc = "returned"

\* getContext up to its first suspension, inside initBrowser: with no browser
\* chromium.launch is started and awaited; with one, initBrowser returns it
\* and getContext awaits that promise
GetContext ==
    /\ Len(browserPool.calls) < MaxGetContext
    /\ IF browserPool.browser = 0
       THEN browserPool' =
              [ browserPool EXCEPT
                  !.launches = @ + 1,
                  !.calls = Append(@, [pc |-> "launching",
                                       browser |-> browserPool.launches + 1,
                                       context |-> 0]) ]
       ELSE browserPool' =
              [ browserPool EXCEPT
                  !.calls = Append(@, [pc |-> "haveBrowser",
                                       browser |-> browserPool.browser,
                                       context |-> 0]) ]
    /\ UNCHANGED poolOthers

\* chromium.launch resolves: this.browser is assigned the launched browser and
\* initBrowser returns this.browser
Launched(i) ==
    /\ i \in 1..Len(browserPool.calls)
    /\ browserPool.calls[i].pc = "launching"
    /\ browserPool' =
         [ browserPool EXCEPT
             !.browser = browserPool.calls[i].browser,
             !.calls[i].pc = "haveBrowser" ]
    /\ UNCHANGED poolOthers

\* getContext resumes with the browser: below maxContexts it starts
\* browser.newContext and awaits it, otherwise it returns a random context
Resume(i) ==
    /\ i \in 1..Len(browserPool.calls)
    /\ browserPool.calls[i].pc = "haveBrowser"
    /\ IF Len(browserPool.contexts) < maxContexts
       THEN browserPool' = [browserPool EXCEPT !.calls[i].pc = "creating"]
       ELSE \E k \in 1..Len(browserPool.contexts) :
              browserPool' =
                [ browserPool EXCEPT
                    !.calls[i].pc = "returned",
                    !.calls[i].context = browserPool.contexts[k] ]
    /\ UNCHANGED poolOthers

\* browser.newContext resolves: the context is pushed and returned
Created(i) ==
    /\ i \in 1..Len(browserPool.calls)
    /\ browserPool.calls[i].pc = "creating"
    /\ browserPool' =
         [ browserPool EXCEPT
             !.contexts = Append(@, i),
             !.calls[i].pc = "returned",
             !.calls[i].context = i ]
    /\ UNCHANGED poolOthers

\* cleanup, called while no getContext is in flight: the contexts and the
\* browser are closed and forgotten
Cleanup ==
    /\ browserPool.calls # <<>>
    /\ poolQuiet
    /\ browserPool' = [browser |-> 0, contexts |-> <<>>, launches |-> 0,
                       calls |-> <<>>]
    /\ UNCHANGED poolOthers

PoolNext ==
    \/ GetContext
    \/ \E i \in 1..MaxGetContext : Launched(i)
    \/ \E i \in 1..MaxGetContext : Resume(i)
    \/ \E i \in 1..MaxGetContext : Created(i)
    \/ Cleanup

SpecPool == Init /\ [][PoolNext]_vars

\* C30: whatever the interleaving of concurrent getContext calls, the pool
\* holds at most maxContexts contexts and has launched at most one browser
\* since the last cleanup
C30_PoolStaysWithinLimits ==
    /\ Len(browserPool.contexts) <= maxContexts
    /\ browserPool.launches <= 1

====
